---------------------------- MODULE Spec2Model ----------------------------
(***************************************************************************)
(* State-machine model of ImgEZ (src/src/ImgEZ.py): the ImageLabel widget  *)
(* (selection, pointer interaction, edit history) driven by the MainWindow *)
(* command handlers.                                                       *)
(*                                                                         *)
(* Representation choices                                                  *)
(*  - An optional Python value is a sequence: None is <<>>, a value v is   *)
(*    <<v>>.                                                               *)
(*  - A QRect is the record Qt stores: [x1, y1, x2, y2], both corners      *)
(*    inclusive, so width = x2 - x1 + 1.                                   *)
(*  - A Python float is an IEEE-754 binary64 value [s, e, m]: sign s in     *)
(*    {-1, 0, 1}, exponent e and 53-bit significand m, the value being     *)
(*    s * m * 2^e; m is held as five 18-bit limbs, least significant       *)
(*    first, because the integers of the checker are 32 bits wide.  Every  *)
(*    operation rounds to nearest, ties to even, as the hardware does.     *)
(*  - A relative coordinate is [n, d, f]: the float f = n / d together     *)
(*    with the fraction n / d, in lowest terms, that to_relative_pos       *)
(*    divided to obtain it.                                                *)
(*  - A pixel buffer is a window onto the pixel grid of the decoded file:  *)
(*    [src, x, y, w, h, rot] is the w x h region of file src whose top     *)
(*    left pixel is (x, y), turned clockwise by rot quarter turns.  Two    *)
(*    buffers are pixel-for-pixel equal iff their records are equal (the   *)
(*    file's pixels being pairwise distinct).  Rotation is modelled for    *)
(*    the angles that are multiples of 90 degrees.                         *)
(***************************************************************************)
EXTENDS Integers, Sequences, FiniteSets, TLC

(***************************************************************************)
(* Bounds of the model and program constants                               *)
(***************************************************************************)
\* size of the ImageLabel widget (self.size())
LabelW == 820
LabelH == 510
\* longest history the main specification explores
MaxHist == 2
\* longest history the capacity specification explores, beyond max_history
MaxOver == 1
\* ImageLabel.EDGE_THRESHOLD, ImageLabel.MIN_SIZE, self.max_history
EDGE_THRESHOLD == 5
MIN_SIZE == 1
max_history == 10
\* update_scaled_pixmap's margins
MARGIN_LEFT == 10
MARGIN_RIGHT == 10
MARGIN_TOP == 10

(***************************************************************************)
(* Python / Qt value helpers                                               *)
(***************************************************************************)
None == <<>>
Some(v) == <<v>>

Abs(n) == IF n < 0 THEN -n ELSE n
Min(a, b) == IF a < b THEN a ELSE b
Max(a, b) == IF a > b THEN a ELSE b

Sign(n) == IF n > 0 THEN 1 ELSE IF n < 0 THEN -1 ELSE 0

RECURSIVE GCD(_, _)
GCD(a, b) == IF b = 0 THEN a ELSE GCD(b, a % b)

(***************************************************************************)
(* Python floats (IEEE-754 binary64)                                       *)
(***************************************************************************)
\* naturals below 2^90 as five limbs
LIMB == 2^18
BigZero == <<0, 0, 0, 0, 0>>
Big(n) == <<n % LIMB, n \div LIMB, 0, 0, 0>>

\* the limbs of the number whose digits, not yet reduced, are t
Carry(t) ==
  LET v2 == t[2] + (t[1] \div LIMB)
      v3 == t[3] + (v2 \div LIMB)
      v4 == t[4] + (v3 \div LIMB)
      v5 == t[5] + (v4 \div LIMB)
  IN  <<t[1] % LIMB, v2 % LIMB, v3 % LIMB, v4 % LIMB, v5 % LIMB>>

BAdd(a, b) == Carry(<<a[1] + b[1], a[2] + b[2], a[3] + b[3], a[4] + b[4], a[5] + b[5]>>)
\* a - b, for a >= b
BSub(a, b) == Carry(<<a[1] - b[1], a[2] - b[2], a[3] - b[3], a[4] - b[4], a[5] - b[5]>>)
\* a * k, for 0 <= k < 2^12
BMulSmall(a, k) == Carry(<<a[1] * k, a[2] * k, a[3] * k, a[4] * k, a[5] * k>>)

\* -1, 0, 1 as a < b, a = b, a > b
BCmp(a, b) ==
  IF a[5] # b[5] THEN (IF a[5] > b[5] THEN 1 ELSE -1)
  ELSE IF a[4] # b[4] THEN (IF a[4] > b[4] THEN 1 ELSE -1)
  ELSE IF a[3] # b[3] THEN (IF a[3] > b[3] THEN 1 ELSE -1)
  ELSE IF a[2] # b[2] THEN (IF a[2] > b[2] THEN 1 ELSE -1)
  ELSE IF a[1] # b[1] THEN (IF a[1] > b[1] THEN 1 ELSE -1)
  ELSE 0

limb(a, i) == IF 1 <= i /\ i <= 5 THEN a[i] ELSE 0

\* a * 2^k (the result below 2^90) and floor(a / 2^k)
BShl(a, k) ==
  LET q == k \div 18
      hi == 2^(k % 18)
      lo == 2^(18 - (k % 18))
      d(i) == (limb(a, i - q) % lo) * hi + (limb(a, i - q - 1) \div lo)
  IN  <<d(1), d(2), d(3), d(4), d(5)>>

BShr(a, k) ==
  LET q == k \div 18
      lo == 2^(k % 18)
      hi == 2^(18 - (k % 18))
      d(i) == (limb(a, i + q) \div lo) + (limb(a, i + q + 1) % lo) * hi
  IN  <<d(1), d(2), d(3), d(4), d(5)>>

\* number of bits of a natural
RECURSIVE BitLen(_)
BitLen(v) == IF v = 0 THEN 0 ELSE 1 + BitLen(v \div 2)

BBitLen(a) ==
  IF a[5] # 0 THEN 72 + BitLen(a[5])
  ELSE IF a[4] # 0 THEN 54 + BitLen(a[4])
  ELSE IF a[3] # 0 THEN 36 + BitLen(a[3])
  ELSE IF a[2] # 0 THEN 18 + BitLen(a[2])
  ELSE BitLen(a[1])

\* bit j (from 0) of a; whether some bit below bit j of a is set
BBit(a, j) == (a[(j \div 18) + 1] \div 2^(j % 18)) % 2
BLowSet(a, j) ==
  \/ a[(j \div 18) + 1] % 2^(j % 18) # 0
  \/ \E i \in 1..(j \div 18) : a[i] # 0

FZero == [s |-> 0, e |-> 0, m |-> BigZero]

\* the float nearest to s * a * 2^e, ties to the even significand
\* the significand q1 = q + 1 of a value rounded up, renormalised when it
\* reached 2^53
RoundUp(s, e, q1) ==
  IF q1[3] >= 2^17 THEN [s |-> s, e |-> e + 1, m |-> BShr(q1, 1)]
  ELSE [s |-> s, e |-> e, m |-> q1]

\* a of more than 53 bits, k of them dropped, q the 53 kept
RoundDropped(s, a, e, k, q) ==
  IF BBit(a, k - 1) = 1 /\ (BLowSet(a, k - 1) \/ q[1] % 2 = 1)
  THEN RoundUp(s, e + k, BAdd(q, Big(1)))
  ELSE [s |-> s, e |-> e + k, m |-> q]

\* a of n bits
RoundBits(s, a, e, n) ==
  IF n = 0 THEN FZero
  ELSE IF n <= 53 THEN [s |-> s, e |-> e + (n - 53), m |-> BShl(a, 53 - n)]
  ELSE RoundDropped(s, a, e, n - 53, BShr(a, n - 53))

Round(s, a, e) == IF s = 0 THEN FZero ELSE RoundBits(s, a, e, BBitLen(a))

\* float(n) of an int
FromInt(n) == Round(Sign(n), Big(Abs(n)), 0)

\* floor(a / d) for 0 < d < 2^12, its lowest bit set when the division leaves
\* a remainder
BDivSmallSticky(a, d) ==
  LET t5 == a[5]
      t4 == (t5 % d) * LIMB + a[4]
      t3 == (t4 % d) * LIMB + a[3]
      t2 == (t3 % d) * LIMB + a[2]
      t1 == (t2 % d) * LIMB + a[1]
      q1 == t1 \div d
  IN  <<IF t1 % d # 0 /\ q1 % 2 = 0 THEN q1 + 1 ELSE q1,
        t2 \div d, t3 \div d, t4 \div d, t5 \div d>>

\* Python n / d for ints |n| < 2^12, 0 < d < 2^12: the quotient to 55 bits or
\* more, then rounded
FDivInt(n, d) == Round(Sign(n), BDivSmallSticky(BShl(Big(Abs(n)), 66), d), -66)

\* x * k for an int |k| < 2^12
FMulInt(x, k) == Round(x.s * Sign(k), BMulSmall(x.m, Abs(k)), x.e)

\* x + y, x - y (exponents at most 36 apart)
\* the signed sum of xs * a * 2^e and ys * b * 2^e, the signs opposite and c
\* the comparison of a with b
FAddOpposite(xs, a, ys, b, e, c) ==
  IF c = 0 THEN FZero
  ELSE IF c > 0 THEN Round(xs, BSub(a, b), e)
  ELSE Round(ys, BSub(b, a), e)

\* the same for any signs
FAddAligned(xs, a, ys, b, e) ==
  IF xs = ys THEN Round(xs, BAdd(a, b), e)
  ELSE FAddOpposite(xs, a, ys, b, e, BCmp(a, b))

FAdd(x, y) ==
  IF x.s = 0 THEN y
  ELSE IF y.s = 0 THEN x
  ELSE FAddAligned(x.s, BShl(x.m, x.e - Min(x.e, y.e)),
                   y.s, BShl(y.m, y.e - Min(x.e, y.e)), Min(x.e, y.e))

FSub(x, y) == FAdd(x, [y EXCEPT !.s = -y.s])

\* x > y
FGreater(x, y) ==
  IF x.s # y.s THEN x.s > y.s
  ELSE IF x.s = 0 THEN FALSE
  ELSE IF x.e # y.e THEN (x.s = 1) = (x.e > y.e)
  ELSE BCmp(x.m, y.m) = x.s

\* twice a, and twice a plus one
BDouble(a) == Carry(<<2 * a[1], 2 * a[2], 2 * a[3], 2 * a[4], 2 * a[5]>>)
BDoubleInc(a) == Carry(<<2 * a[1] + 1, 2 * a[2], 2 * a[3], 2 * a[4], 2 * a[5]>>)

\* n more bits of a quotient by restoring division by d: st is <<the bits
\* found so far, twice the remainder>>, before and after
RECURSIVE DivBits(_, _, _)
DivBits(st, d, n) ==
  IF n = 0 THEN st
  ELSE IF BCmp(st[2], d) >= 0
  THEN DivBits(<<BDoubleInc(st[1]), BDouble(BSub(st[2], d))>>, d, n - 1)
  ELSE DivBits(<<BDouble(st[1]), BDouble(st[2])>>, d, n - 1)

\* the quotient bits q with their lowest bit set when a remainder r is left
Sticky(q, r) == IF r # BigZero /\ q[1] % 2 = 0 THEN BAdd(q, Big(1)) ELSE q

FIntDivShifted(j, qr, y) == Round(y.s, Sticky(qr[1], qr[2]), -(j + 57) - y.e)

\* k shifted left by j bits is below the divisor
FIntDivBits(k, y, j) ==
  FIntDivShifted(j, DivBits(<<BigZero, BDouble(BShl(Big(k), j))>>, y.m, 57), y)

\* Python k / y for an int 0 < k < 2^12 and a float y # 0: 57 bits of the
\* quotient of k * 2^(52 - bits of k), then rounded
FIntDiv(k, y) == FIntDivBits(k, y, 52 - BitLen(k))

\* Python int(x): truncation toward zero (|x| < 2^31)
BLow(a) == a[1] + a[2] * LIMB

FTrunc(x) ==
  IF x.s = 0 THEN 0
  ELSE x.s * BLow(IF x.e >= 0 THEN BShl(x.m, x.e) ELSE BShr(x.m, -x.e))

\* the relative coordinate n / d
Coord(n, d) ==
  LET g == GCD(Abs(n), d)
  IN  [n |-> IF n = 0 THEN 0 ELSE n \div g,
       d |-> IF n = 0 THEN 1 ELSE d \div g,
       f |-> FDivInt(n, d)]

QPoint(px, py) == [x |-> px, y |-> py]

\* QPointF.isNull(): both coordinates are 0.0; bool(QPointF) is its negation
QPointF_bool(p) == ~(p.x.f.s = 0 /\ p.y.f.s = 0)

\* QRect(x, y, w, h) and QRect(topLeft, bottomRight)
QRect(px, py, w, h) == [x1 |-> px, y1 |-> py, x2 |-> px + w - 1, y2 |-> py + h - 1]
QRectPts(p, q) == [x1 |-> p.x, y1 |-> p.y, x2 |-> q.x, y2 |-> q.y]
NullRect == [x1 |-> 0, y1 |-> 0, x2 |-> -1, y2 |-> -1]

width(r) == r.x2 - r.x1 + 1
height(r) == r.y2 - r.y1 + 1
isNull(r) == r.x2 = r.x1 - 1 /\ r.y2 = r.y1 - 1
\* bool(QRect) is QRect.isValid()
isValid(r) == r.x1 <= r.x2 /\ r.y1 <= r.y2

setTop(r, t) == [r EXCEPT !.y1 = t]
setLeft(r, l) == [r EXCEPT !.x1 = l]
setHeight(r, h) == [r EXCEPT !.y2 = r.y1 + h - 1]
setWidth(r, w) == [r EXCEPT !.x2 = r.x1 + w - 1]
topLeft(r) == QPoint(r.x1, r.y1)
bottomRight(r) == QPoint(r.x2, r.y2)
translate(r, d) ==
  [x1 |-> r.x1 + d.x, y1 |-> r.y1 + d.y, x2 |-> r.x2 + d.x, y2 |-> r.y2 + d.y]
moveLeft(r, p) == [r EXCEPT !.x2 = r.x2 + (p - r.x1), !.x1 = p]
moveRight(r, p) == [r EXCEPT !.x1 = r.x1 + (p - r.x2), !.x2 = p]
moveTop(r, p) == [r EXCEPT !.y2 = r.y2 + (p - r.y1), !.y1 = p]
moveBottom(r, p) == [r EXCEPT !.y1 = r.y1 + (p - r.y2), !.y2 = p]

\* QRect.normalized() of Qt 5: the corners are swapped, as they stand, on an
\* axis whose width is negative (x2 < x1 - 1)
normalized(r) ==
  [x1 |-> IF r.x2 < r.x1 - 1 THEN r.x2 ELSE r.x1,
   x2 |-> IF r.x2 < r.x1 - 1 THEN r.x1 ELSE r.x2,
   y1 |-> IF r.y2 < r.y1 - 1 THEN r.y2 ELSE r.y1,
   y2 |-> IF r.y2 < r.y1 - 1 THEN r.y1 ELSE r.y2]

\* QRect.intersected(): null when either is null or they do not meet
intersected(a, b) ==
  LET l1 == IF a.x2 < a.x1 - 1 THEN a.x2 ELSE a.x1
      r1 == IF a.x2 < a.x1 - 1 THEN a.x1 ELSE a.x2
      l2 == IF b.x2 < b.x1 - 1 THEN b.x2 ELSE b.x1
      r2 == IF b.x2 < b.x1 - 1 THEN b.x1 ELSE b.x2
      t1 == IF a.y2 < a.y1 - 1 THEN a.y2 ELSE a.y1
      b1 == IF a.y2 < a.y1 - 1 THEN a.y1 ELSE a.y2
      t2 == IF b.y2 < b.y1 - 1 THEN b.y2 ELSE b.y1
      b2 == IF b.y2 < b.y1 - 1 THEN b.y1 ELSE b.y2
  IN  IF isNull(a) \/ isNull(b) THEN NullRect
      ELSE IF l1 > r2 \/ l2 > r1 \/ t1 > b2 \/ t2 > b1 THEN NullRect
      ELSE [x1 |-> Max(l1, l2), x2 |-> Min(r1, r2),
            y1 |-> Max(t1, t2), y2 |-> Min(b1, b2)]

\* QRect.contains(QPoint)
contains(r, p) ==
  LET l == IF r.x2 < r.x1 - 1 THEN r.x2 ELSE r.x1
      rr == IF r.x2 < r.x1 - 1 THEN r.x1 ELSE r.x2
      t == IF r.y2 < r.y1 - 1 THEN r.y2 ELSE r.y1
      b == IF r.y2 < r.y1 - 1 THEN r.y1 ELSE r.y2
  IN  ~isNull(r) /\ l <= p.x /\ p.x <= rr /\ t <= p.y /\ p.y <= b

(***************************************************************************)
(* Pixel buffers (QPixmap)                                                 *)
(***************************************************************************)
\* a 1 x 1 buffer looks the same in every orientation
Pixmap(s, px, py, w, h, r) ==
  [src |-> s, x |-> px, y |-> py, w |-> w, h |-> h,
   rot |-> IF w = 1 /\ h = 1 THEN 0 ELSE r]

\* QPixmap.width(), QPixmap.height(), QPixmap.rect()
pm_width(pm) == IF pm.rot % 2 = 0 THEN pm.w ELSE pm.h
pm_height(pm) == IF pm.rot % 2 = 0 THEN pm.h ELSE pm.w
pm_rect(pm) == QRect(0, 0, pm_width(pm), pm_height(pm))

\* QImage.copy(rect) for a valid rect inside the buffer: the sub-window, in the
\* file's coordinates, that the buffer's pixels [x1..x2] x [y1..y2] show
copy(pm, r) ==
  LET cw == width(r)
      ch == height(r)
  IN  CASE pm.rot = 0 -> Pixmap(pm.src, pm.x + r.x1, pm.y + r.y1, cw, ch, 0)
        [] pm.rot = 1 -> Pixmap(pm.src, pm.x + r.y1, pm.y + pm.h - 1 - r.x2, ch, cw, 1)
        [] pm.rot = 2 -> Pixmap(pm.src, pm.x + pm.w - 1 - r.x2, pm.y + pm.h - 1 - r.y2, cw, ch, 2)
        [] pm.rot = 3 -> Pixmap(pm.src, pm.x + pm.w - 1 - r.y2, pm.y + r.x1, ch, cw, 3)

\* |sin| and |cos| of a multiple of 90 degrees (math.sin / math.cos of
\* math.radians(abs(angle)); the float residue of cos(90) vanishes in int())
sin_a(angle) == IF (Abs(angle) \div 90) % 2 = 1 THEN 1 ELSE 0
cos_a(angle) == IF (Abs(angle) \div 90) % 2 = 0 THEN 1 ELSE 0

\* the size rotate_image computes for the new buffer
new_width(pm, angle) == pm_width(pm) * cos_a(angle) + pm_height(pm) * sin_a(angle)
new_height(pm, angle) == pm_width(pm) * sin_a(angle) + pm_height(pm) * cos_a(angle)

\* rotated turning a quarter turn further than asked: the variant against
\* which the rotations by 0 and 360 degrees (C22) are checked
rotated_quarter_further(pm, angle) ==
  Pixmap(pm.src, pm.x, pm.y, pm.w, pm.h, (pm.rot + 1 + (angle \div 90)) % 4)

\* the buffer rotate_image paints: the source turned clockwise by angle about
\* its centre, which for a multiple of 90 degrees fills the new buffer exactly
rotated(pm, angle) ==
  Pixmap(pm.src, pm.x, pm.y, pm.w, pm.h, (pm.rot + (angle \div 90)) % 4)

(***************************************************************************)
(* State                                                                   *)
(***************************************************************************)
VARIABLES
  original_pixmap,      \* the current buffer (None before the first load)
  label_pixmap,         \* whether QLabel.pixmap() is set
  current_pixmap_rect,  \* where the scaled image is painted (None before load)
  history,              \* sequence of buffers
  history_index,
  rel_start_pos,        \* the selection, relative coordinates (or None)
  rel_end_pos,
  is_drawing,
  is_resizing,
  resize_edge,
  last_pos,
  is_negative_resize,
  original_edge_pos,
  op,                   \* observation: the handler that ran last
  ret,                  \*   and what it returned, or the exception it raised
  loaded,               \*   the buffer most recently produced by load_image
  last_edit,            \*   the latest successful crop or rotate, when it was
                        \*   the last handler (age 0) or the one before it
                        \*   (age 1): the buffer, the oldest snapshot and the
                        \*   selection before it, and the angle of a rotate
  undo_run              \*   <<history depth N when the current run of undo
                        \*   calls began, number of calls in the run (counted
                        \*   up to N + 2)>>

widget == <<original_pixmap, label_pixmap, current_pixmap_rect, history,
            history_index, rel_start_pos, rel_end_pos, is_drawing, is_resizing,
            resize_edge, last_pos, is_negative_resize, original_edge_pos>>
vars == <<widget, op, ret, loaded, last_edit, undo_run>>

EdgeType == {"NONE", "LEFT", "RIGHT", "TOP", "BOTTOM", "TOP_LEFT", "TOP_RIGHT",
             "BOTTOM_LEFT", "BOTTOM_RIGHT", "MOVE"}

(***************************************************************************)
(* Geometry                                                                *)
(***************************************************************************)
\* the aspect-fit sub-rectangle of cpr that the image pm occupies, as
\* mousePressEvent, get_current_rect, to_relative_pos compute it
\* cpr cut to height nh / width nw, centred
FitHeight(cpr, nh) ==
  setHeight(setTop(cpr, cpr.y1 + (height(cpr) - nh) \div 2), nh)
FitWidth(cpr, nw) ==
  setWidth(setLeft(cpr, cpr.x1 + (width(cpr) - nw) \div 2), nw)

AspectFit(cpr, original_aspect, current_aspect) ==
  IF FGreater(original_aspect, current_aspect)
  THEN FitHeight(cpr, FTrunc(FIntDiv(width(cpr), original_aspect)))
  ELSE FitWidth(cpr, FTrunc(FMulInt(original_aspect, height(cpr))))

ActualRect(pm, cpr) ==
  AspectFit(cpr, FDivInt(pm_width(pm), pm_height(pm)),
            FDivInt(width(cpr), height(cpr)))

actual_rect == ActualRect(original_pixmap[1], current_pixmap_rect[1])

\* the two aspect ratios cannot be computed: "width() / height()" of a buffer
\* or of a display rectangle without height raises ZeroDivisionError
AspectRaises(pm, cpr) == pm_height(pm) = 0 \/ height(cpr) = 0

\* to_relative_pos cannot divide by the size of the rendered image area a
Degenerate(a) == width(a) = 0 \/ height(a) = 0

\* to_relative_pos of a widget point, for the given buffer and display rect
RelativeIn(pos, a) ==
  Some([x |-> Coord(pos.x - a.x1, width(a)),
        y |-> Coord(pos.y - a.y1, height(a))])

ToRelativePos(pos, pm, cpr) ==
  IF cpr = None \/ pm = None THEN None
  ELSE RelativeIn(pos, ActualRect(pm[1], cpr[1]))

to_relative_pos(pos) == ToRelativePos(pos, original_pixmap, current_pixmap_rect)

\* bool() of an optional QPointF / QRect
point_bool(o) == o # None /\ QPointF_bool(o[1])
rect_bool(o) == o # None /\ isValid(o[1])

\* to_local_pos: the widget point of a relative point, through the display
\* rectangle current_pixmap_rect
to_local_pos(rel_pos) ==
  IF ~rect_bool(current_pixmap_rect) \/ ~point_bool(rel_pos) THEN None
  ELSE Some(QPoint(
         FTrunc(FAdd(FromInt(current_pixmap_rect[1].x1),
                     FMulInt(rel_pos[1].x.f, width(current_pixmap_rect[1])))),
         FTrunc(FAdd(FromInt(current_pixmap_rect[1].y1),
                     FMulInt(rel_pos[1].y.f, height(current_pixmap_rect[1]))))))

\* the selection in widget coordinates, for given end points
\* the rectangle of relative points s, e in the rendered image area a
RectIn(s, e, a) ==
  LET start_x == FAdd(FromInt(a.x1), FMulInt(s.x.f, width(a)))
      start_y == FAdd(FromInt(a.y1), FMulInt(s.y.f, height(a)))
      end_x == FAdd(FromInt(a.x1), FMulInt(e.x.f, width(a)))
      end_y == FAdd(FromInt(a.y1), FMulInt(e.y.f, height(a)))
      rect == normalized(QRectPts(QPoint(FTrunc(start_x), FTrunc(start_y)),
                                  QPoint(FTrunc(end_x), FTrunc(end_y))))
  IN  intersected(rect, a)

CurrentRect(s, e, pm, cpr) ==
  IF ~(point_bool(s) /\ point_bool(e) /\ rect_bool(cpr)) THEN None
  ELSE Some(RectIn(s[1], e[1], ActualRect(pm[1], cpr[1])))

get_current_rect ==
  CurrentRect(rel_start_pos, rel_end_pos, original_pixmap, current_pixmap_rect)

\* get_current_rect gets as far as the aspect ratios and cannot compute them
get_current_rect_raises ==
  /\ point_bool(rel_start_pos) /\ point_bool(rel_end_pos)
  /\ rect_bool(current_pixmap_rect)
  /\ AspectRaises(original_pixmap[1], current_pixmap_rect[1])

\* the crop rectangle without the intersection with the image's rectangle
SelectionRect_unclipped(s, e, pm, has_pixmap) ==
  IF ~(point_bool(s) /\ point_bool(e) /\ has_pixmap) THEN None
  ELSE Some(normalized(QRect(
         FTrunc(FMulInt(s[1].x.f, pm_width(pm[1]))),
         FTrunc(FMulInt(s[1].y.f, pm_height(pm[1]))),
         FTrunc(FMulInt(FSub(e[1].x.f, s[1].x.f), pm_width(pm[1]))),
         FTrunc(FMulInt(FSub(e[1].y.f, s[1].y.f), pm_height(pm[1]))))))

\* the selection in the buffer's pixel coordinates, for given end points
SelectionRect(s, e, pm, has_pixmap) ==
  IF ~(point_bool(s) /\ point_bool(e) /\ has_pixmap) THEN None
  ELSE LET W == pm_width(pm[1])
           H == pm_height(pm[1])
           original_rect ==
             normalized(QRect(
               FTrunc(FMulInt(s[1].x.f, W)),
               FTrunc(FMulInt(s[1].y.f, H)),
               FTrunc(FMulInt(FSub(e[1].x.f, s[1].x.f), W)),
               FTrunc(FMulInt(FSub(e[1].y.f, s[1].y.f), H))))
       IN  Some(intersected(original_rect, pm_rect(pm[1])))

get_selection_rect ==
  SelectionRect(rel_start_pos, rel_end_pos, original_pixmap, label_pixmap)

\* EdgeOf trying the edges before the corners: the variant against which the
\* priority of corners (C19) is checked
EdgeOf_edges_first(rect, pos) ==
  LET near_left == Abs(pos.x - rect.x1) < EDGE_THRESHOLD
      near_right == Abs(pos.x - rect.x2) < EDGE_THRESHOLD
      near_top == Abs(pos.y - rect.y1) < EDGE_THRESHOLD
      near_bottom == Abs(pos.y - rect.y2) < EDGE_THRESHOLD
  IN  IF ~contains(rect, pos) THEN "NONE"
      ELSE IF near_left THEN "LEFT"
      ELSE IF near_right THEN "RIGHT"
      ELSE IF near_top THEN "TOP"
      ELSE IF near_bottom THEN "BOTTOM"
      ELSE "MOVE"

\* get_edge_at_position's classification of pos against the selection
\* rectangle rect
EdgeOf(rect, pos) ==
  LET near_left == Abs(pos.x - rect.x1) < EDGE_THRESHOLD
      near_right == Abs(pos.x - rect.x2) < EDGE_THRESHOLD
      near_top == Abs(pos.y - rect.y1) < EDGE_THRESHOLD
      near_bottom == Abs(pos.y - rect.y2) < EDGE_THRESHOLD
  IN  IF ~contains(rect, pos) THEN "NONE"
      ELSE IF near_top /\ near_left THEN "TOP_LEFT"
      ELSE IF near_top /\ near_right THEN "TOP_RIGHT"
      ELSE IF near_bottom /\ near_left THEN "BOTTOM_LEFT"
      ELSE IF near_bottom /\ near_right THEN "BOTTOM_RIGHT"
      ELSE IF near_left THEN "LEFT"
      ELSE IF near_right THEN "RIGHT"
      ELSE IF near_top THEN "TOP"
      ELSE IF near_bottom THEN "BOTTOM"
      ELSE "MOVE"

\* get_edge_at_position, current being what get_current_rect returns and a
\* the rendered image area
EdgeAt(current, a, pos) ==
  IF ~(point_bool(rel_start_pos) /\ point_bool(rel_end_pos)) THEN "NONE"
  ELSE IF ~rect_bool(current) THEN "NONE"
  ELSE IF original_pixmap # None /\ ~contains(a, pos) THEN "NONE"
  ELSE EdgeOf(current[1], pos)

\* get_edge_at_position answering MOVE for every point on the selection: the
\* variant against which the edge a press takes hold of (C27) is checked
get_edge_at_position_move_only(pos) ==
  IF EdgeAt(get_current_rect, actual_rect, pos) = "NONE" THEN "NONE" ELSE "MOVE"

get_edge_at_position(pos) == EdgeAt(get_current_rect, actual_rect, pos)

\* QPixmap.scaled(w, h, Qt.KeepAspectRatio): the size of the scaled pixmap
\* (QSize.scale, then each side at least 1)
ScaledSize(pm, aw, ah) ==
  LET rw == (ah * pm_width(pm)) \div pm_height(pm)
  IN  IF rw <= aw
      THEN [w |-> Max(rw, 1), h |-> Max(ah, 1)]
      ELSE [w |-> Max(aw, 1), h |-> Max((aw * pm_height(pm)) \div pm_width(pm), 1)]

\* the current_pixmap_rect update_scaled_pixmap computes for buffer pm
ScaledPixmapRect(pm) ==
  LET available_width == LabelW - (MARGIN_LEFT + MARGIN_RIGHT)
      available_height == LabelH - MARGIN_TOP
      scaled == ScaledSize(pm, available_width, available_height)
      px == MARGIN_LEFT + (available_width - scaled.w) \div 2
      py == MARGIN_TOP + (available_height - scaled.h) \div 2
  IN  QRect(px, py, scaled.w, scaled.h)

\* update_scaled_pixmap, run after the buffer became pm
update_scaled_pixmap(pm) ==
  /\ current_pixmap_rect' = Some(ScaledPixmapRect(pm))
  /\ label_pixmap' = TRUE

\* clear_selection forgetting the end point only: the variant against which
\* the pairing of the two selection points (C12) is checked
clear_selection_end_only ==
  /\ rel_end_pos' = None
  /\ is_drawing' = FALSE
  /\ is_resizing' = FALSE
  /\ resize_edge' = "NONE"
  /\ last_pos' = None
  /\ UNCHANGED rel_start_pos

\* clear_selection forgetting the two points only, the gesture going on
clear_selection_points_only ==
  /\ rel_start_pos' = None
  /\ rel_end_pos' = None
  /\ UNCHANGED <<is_drawing, is_resizing, resize_edge, last_pos>>

clear_selection ==
  /\ rel_start_pos' = None
  /\ rel_end_pos' = None
  /\ is_drawing' = FALSE
  /\ is_resizing' = FALSE
  /\ resize_edge' = "NONE"
  /\ last_pos' = None

selection_vars == <<rel_start_pos, rel_end_pos, is_drawing, is_resizing,
                    resize_edge, last_pos>>
latch_vars == <<is_negative_resize, original_edge_pos>>
image_vars == <<original_pixmap, label_pixmap, current_pixmap_rect, history,
                history_index>>

\* the observation of the latest crop or rotate, one handler later
aged ==
  IF last_edit # None /\ last_edit[1].age = 0
  THEN Some([last_edit[1] EXCEPT !.age = 1])
  ELSE None

\* the observation of a successful crop (angle 0) or rotate of the current
\* buffer
edited(o, angle) ==
  Some([op |-> o,
        buffer |-> original_pixmap[1],
        base |-> IF Len(history) > 0 THEN history[1] ELSE original_pixmap[1],
        sel |-> IF o = "trim" THEN <<rel_start_pos, rel_end_pos>> ELSE <<None, None>>,
        angle |-> angle,
        age |-> 0])

\* bookkeeping of the observation variables for a handler that is neither a
\* load, a successful crop or rotate, nor an undo
Handled(o) ==
  /\ op' = o
  /\ last_edit' = aged
  /\ undo_run' = None
  /\ UNCHANGED loaded

Observe(o, r) == Handled(o) /\ ret' = r

(***************************************************************************)
(* Edit operations                                                         *)
(***************************************************************************)
\* load_image adding the loaded buffer to the history it finds: the variant
\* against which the history after a load (C25) is checked
load_image_appending(img) ==
  /\ original_pixmap' = Some(img)
  /\ history' = Append(history, img)
  /\ history_index' = Len(history') - 1
  /\ update_scaled_pixmap(img)
  /\ clear_selection
  /\ ret' = "none"
  /\ UNCHANGED latch_vars
  /\ op' = "load" /\ loaded' = Some(img)
  /\ last_edit' = aged /\ undo_run' = None

\* ImageLabel.load_image with a file that decodes to buffer img
\* (a file that cannot be decoded gives the null buffer, whose scale factor
\* update_scaled_pixmap cannot compute)
load_image(img) ==
  /\ original_pixmap' = Some(img)
  /\ history' = <<img>>
  /\ history_index' = 0
  /\ IF pm_width(img) = 0 \/ pm_height(img) = 0
     THEN /\ UNCHANGED <<label_pixmap, current_pixmap_rect, selection_vars>>
          /\ ret' = "ZeroDivisionError"
     ELSE /\ update_scaled_pixmap(img)
          /\ clear_selection
          /\ ret' = "none"
  /\ UNCHANGED latch_vars
  /\ op' = "load" /\ loaded' = Some(img)
  /\ last_edit' = aged /\ undo_run' = None

\* ImageLabel.trim_image: the state it leaves for selection rectangle rect
trim_image(rect) ==
  /\ history' = Append(history, original_pixmap[1])
  /\ history_index' = Len(history')  - 1
  /\ original_pixmap' = Some(copy(original_pixmap[1], rect))
  /\ clear_selection
  /\ update_scaled_pixmap(original_pixmap'[1])
  /\ UNCHANGED latch_vars

\* trim_selection dropping the selection when there is nothing to crop: the
\* variant against which the crop without a rectangle (C15) is checked
trim_selection_clearing(rect) ==
  IF label_pixmap /\ rect_bool(get_current_rect)
     /\ original_pixmap # None /\ rect_bool(rect)
  THEN /\ trim_image(rect[1])
       /\ op' = "trim" /\ ret' = "true"
       /\ last_edit' = edited("trim", 0)
       /\ undo_run' = None
       /\ UNCHANGED loaded
  ELSE /\ clear_selection
       /\ UNCHANGED <<image_vars, latch_vars>>
       /\ Observe("trim", "none")

\* MainWindow.trim_image, rect being what get_selection_rect returns
trim_selection(rect) ==
  IF label_pixmap /\ rect_bool(get_current_rect)
     /\ original_pixmap # None /\ rect_bool(rect)
  THEN /\ trim_image(rect[1])
       /\ op' = "trim" /\ ret' = "true"
       /\ last_edit' = edited("trim", 0)
       /\ undo_run' = None
       /\ UNCHANGED loaded
  ELSE /\ UNCHANGED widget
       /\ Observe("trim", "none")

\* MainWindow.trim_image (Ctrl+T, and a double click on a selection)
MainWindow_trim_image == trim_selection(get_selection_rect)

\* ImageLabel.rotate_image(angle)
rotate_image(angle) ==
  /\ history' = Append(history, rotated(original_pixmap[1], angle))
  /\ history_index' = Len(history') - 1
  /\ original_pixmap' = Some(rotated(original_pixmap[1], angle))
  /\ clear_selection
  /\ update_scaled_pixmap(original_pixmap'[1])
  /\ UNCHANGED latch_vars

\* MainWindow.rotate_image with the dialog accepted for angle
MainWindow_rotate_image(angle) ==
  IF label_pixmap /\ original_pixmap # None
  THEN /\ rotate_image(angle)
       /\ op' = "rotate" /\ ret' = "true"
       /\ last_edit' = edited("rotate", angle)
       /\ undo_run' = None
       /\ UNCHANGED loaded
  ELSE /\ UNCHANGED widget
       /\ Observe("rotate", IF label_pixmap THEN "false" ELSE "none")

\* undo_last without its pop: the variant against which the undo count of C5
\* is checked
undo_last_keeping_entry ==
  /\ original_pixmap' = Some(history[history_index + 1])
  /\ UNCHANGED <<history, history_index>>
  /\ clear_selection
  /\ update_scaled_pixmap(original_pixmap'[1])
  /\ UNCHANGED latch_vars

\* undo_last leaving history_index where it was: the variant against which
\* the agreement of history_index and the history's length (C36) is checked
undo_last_keeping_index ==
  /\ original_pixmap' = Some(history[history_index + 1])
  /\ history' = SubSeq(history, 1, Len(history) - 1)
  /\ UNCHANGED history_index
  /\ clear_selection
  /\ update_scaled_pixmap(original_pixmap'[1])
  /\ UNCHANGED latch_vars

\* ImageLabel.undo_last, history non-empty
undo_last ==
  /\ original_pixmap' = Some(history[history_index + 1])
  /\ history' = SubSeq(history, 1, Len(history) - 1)
  /\ history_index' = Len(history') - 1
  /\ clear_selection
  /\ update_scaled_pixmap(original_pixmap'[1])
  /\ UNCHANGED latch_vars

\* MainWindow.undo_last_image with an undo that drops the selection when it has
\* nothing to restore: the variant against which the undo of an empty history
\* (C16) is checked
MainWindow_undo_last_image_clearing ==
  /\ IF label_pixmap /\ Len(history) > 0
     THEN undo_last /\ ret' = "true"
     ELSE /\ clear_selection
          /\ UNCHANGED <<image_vars, latch_vars>>
          /\ ret' = (IF label_pixmap THEN "false" ELSE "none")
  /\ op' = "undo"
  /\ last_edit' = aged
  /\ undo_run' = IF op = "undo" /\ undo_run # None
                 THEN <<undo_run[1], Min(undo_run[2] + 1, undo_run[1] + 2)>>
                 ELSE <<Len(history), 1>>
  /\ UNCHANGED loaded

\* MainWindow.undo_last_image (Ctrl+Z)
MainWindow_undo_last_image ==
  /\ IF label_pixmap /\ Len(history) > 0
     THEN undo_last /\ ret' = "true"
     ELSE UNCHANGED widget /\ ret' = (IF label_pixmap THEN "false" ELSE "none")
  /\ op' = "undo"
  /\ last_edit' = aged
  /\ undo_run' = IF op = "undo" /\ undo_run # None
                 THEN <<undo_run[1], Min(undo_run[2] + 1, undo_run[1] + 2)>>
                 ELSE <<Len(history), 1>>
  /\ UNCHANGED loaded

\* reset_to_original restoring the newest snapshot instead of the oldest: the
\* variant against which the reset of C4 is checked
reset_to_newest ==
  /\ history' = <<history[Len(history)]>>
  /\ history_index' = 0
  /\ original_pixmap' = Some(history[Len(history)])
  /\ clear_selection
  /\ update_scaled_pixmap(original_pixmap'[1])
  /\ UNCHANGED latch_vars

\* reset_to_original restoring the oldest snapshot without collapsing the
\* history: the variant against which the history after a reset (C17) is
\* checked
reset_keeping_history ==
  /\ original_pixmap' = Some(history[1])
  /\ UNCHANGED <<history, history_index>>
  /\ clear_selection
  /\ update_scaled_pixmap(original_pixmap'[1])
  /\ UNCHANGED latch_vars

\* ImageLabel.reset_to_original, history non-empty
reset_to_original ==
  /\ history' = <<history[1]>>
  /\ history_index' = 0
  /\ original_pixmap' = Some(history[1])
  /\ clear_selection
  /\ update_scaled_pixmap(original_pixmap'[1])
  /\ UNCHANGED latch_vars

\* MainWindow.reset_to_original (Ctrl+Alt+R)
MainWindow_reset_to_original ==
  /\ IF label_pixmap /\ Len(history) > 0
     THEN reset_to_original /\ ret' = "true"
     ELSE UNCHANGED widget /\ ret' = (IF label_pixmap THEN "false" ELSE "none")
  /\ op' = "reset"
  /\ last_edit' = aged /\ undo_run' = None
  /\ UNCHANGED loaded

(***************************************************************************)
(* Pointer interaction                                                     *)
(***************************************************************************)
LeftEdges == {"LEFT", "TOP_LEFT", "BOTTOM_LEFT"}
RightEdges == {"RIGHT", "TOP_RIGHT", "BOTTOM_RIGHT"}
TopEdges == {"TOP", "TOP_LEFT", "TOP_RIGHT"}
BottomEdges == {"BOTTOM", "BOTTOM_LEFT", "BOTTOM_RIGHT"}

\* the start of a new selection at pos (mousePressEvent, "if rel_pos:")
begin_at(rel_pos) ==
  IF point_bool(rel_pos)
  THEN /\ rel_start_pos' = rel_pos
       /\ rel_end_pos' = rel_pos
       /\ is_drawing' = TRUE
  ELSE UNCHANGED <<rel_start_pos, rel_end_pos, is_drawing>>

\* to_relative_pos(pos) and the start of a selection from what it returns, a
\* being the rendered image area
begin_in(pos, a) ==
  IF Degenerate(a)
  THEN /\ UNCHANGED <<rel_start_pos, rel_end_pos, is_drawing>>
       /\ ret' = "ZeroDivisionError"
  ELSE /\ begin_at(RelativeIn(pos, a))
       /\ ret' = "none"

begin_selection(pos) ==
  IF current_pixmap_rect = None \/ original_pixmap = None
  THEN begin_at(None) /\ ret' = "none"
  ELSE begin_in(pos, actual_rect)

\* the same, after clear_selection has run
begin_cleared_at(rel_pos) ==
  IF point_bool(rel_pos)
  THEN /\ rel_start_pos' = rel_pos
       /\ rel_end_pos' = rel_pos
       /\ is_drawing' = TRUE
  ELSE /\ rel_start_pos' = None
       /\ rel_end_pos' = None
       /\ is_drawing' = FALSE

begin_selection_cleared(pos) == begin_cleared_at(to_relative_pos(pos))

\* mousePressEvent, edge_type and current_rect being what
\* get_edge_at_position(pos) and get_current_rect return
press(pos, edge_type, current_rect) ==
  /\ Handled("press")
  /\ UNCHANGED image_vars
  /\ IF ~label_pixmap
     THEN UNCHANGED <<selection_vars, latch_vars>> /\ ret' = "none"
     ELSE IF edge_type # "NONE"
     THEN /\ last_pos' = Some(pos)
          /\ resize_edge' = edge_type
          /\ is_resizing' = TRUE
          /\ is_negative_resize' = FALSE
          /\ original_edge_pos' = None
          /\ UNCHANGED <<rel_start_pos, rel_end_pos, is_drawing>>
          /\ ret' = "none"
     ELSE IF rect_bool(current_rect)
     THEN IF contains(current_rect[1], pos)
          THEN /\ last_pos' = Some(pos)
               /\ resize_edge' = "MOVE"
               /\ is_resizing' = TRUE
               /\ UNCHANGED <<rel_start_pos, rel_end_pos, is_drawing, latch_vars>>
               /\ ret' = "none"
          ELSE IF contains(actual_rect, pos)
          THEN \* clear_selection, then a new selection from the click
               /\ begin_selection_cleared(pos)
               /\ is_resizing' = FALSE
               /\ resize_edge' = "NONE"
               /\ last_pos' = None
               /\ UNCHANGED latch_vars
               /\ ret' = "none"
          ELSE /\ last_pos' = Some(pos)
               /\ UNCHANGED <<rel_start_pos, rel_end_pos, is_drawing,
                              is_resizing, resize_edge, latch_vars>>
               /\ ret' = "none"
     ELSE /\ last_pos' = Some(pos)
          /\ begin_selection(pos)
          /\ UNCHANGED <<is_resizing, resize_edge, latch_vars>>

\* ImageLabel.mousePressEvent, left button, at widget point pos (the handler
\* stops at its own aspect ratios when they cannot be computed)
mousePressEvent(pos) ==
  IF /\ label_pixmap /\ original_pixmap # None
     /\ AspectRaises(original_pixmap[1], current_pixmap_rect[1])
  THEN /\ Observe("press", "ZeroDivisionError")
       /\ last_pos' = Some(pos)
       /\ UNCHANGED <<image_vars, rel_start_pos, rel_end_pos, is_drawing,
                      is_resizing, resize_edge, latch_vars>>
  ELSE press(pos, get_edge_at_position(pos), get_current_rect)

\* ImageLabel.adjust_rect_size: [rect, delta, is_min_size]
\* the MOVE branch without its limits: the variant against which the sliding
\* of a moved selection (C14) is checked
not_limited(r, a) == r

\* the four limits of the MOVE branch, applied to new_rect = r in turn
limit_left(r, a) == IF r.x1 < a.x1 THEN moveLeft(r, a.x1) ELSE r
limit_right(r, a) == IF r.x2 > a.x2 THEN moveRight(r, a.x2) ELSE r
limit_top(r, a) == IF r.y1 < a.y1 THEN moveTop(r, a.y1) ELSE r
limit_bottom(r, a) == IF r.y2 > a.y2 THEN moveBottom(r, a.y2) ELSE r
limited(r, a) == limit_bottom(limit_top(limit_right(limit_left(r, a), a), a), a)

\* the result of the MOVE branch, new_rect being the limited rectangle
move_result(rect, delta, new_rect, a) ==
  IF ~contains(a, topLeft(new_rect)) \/ ~contains(a, bottomRight(new_rect))
  THEN [rect |-> rect, delta |-> QPoint(0, 0), is_min_size |-> FALSE]
  ELSE [rect |-> new_rect, delta |-> delta, is_min_size |-> FALSE]

move_rect(rect, delta, a) ==
  move_result(rect, delta, limited(translate(rect, delta), a), a)

adjust_rect_size(rect, edge_type, delta) ==
  IF edge_type = "MOVE"
  THEN move_rect(rect, delta, actual_rect)
  ELSE [rect |-> rect, delta |-> delta, is_min_size |-> FALSE]

\* mouseMoveEvent's latch bookkeeping: [neg, edge_pos] after an adjustment that
\* returned rectangle rect and flag is_min_size, the pointer being at pos
latch_after(rect, is_min_size, pos) ==
  LET set == is_min_size /\ ~is_negative_resize
      neg1 == is_negative_resize \/ set
      oep1 == IF ~set THEN original_edge_pos
              ELSE IF resize_edge \in LeftEdges THEN Some(rect.x1)
              ELSE IF resize_edge \in RightEdges THEN Some(rect.x2)
              ELSE IF resize_edge \in TopEdges THEN Some(rect.y1)
              ELSE IF resize_edge \in BottomEdges THEN Some(rect.y2)
              ELSE original_edge_pos
      current_pos == IF resize_edge \in LeftEdges \cup RightEdges THEN Some(pos.x)
                     ELSE IF resize_edge \in TopEdges \cup BottomEdges THEN Some(pos.y)
                     ELSE None
      back == /\ current_pos # None
              /\ oep1 # None
              /\ \/ resize_edge \in LeftEdges /\ current_pos[1] <= oep1[1]
                 \/ resize_edge \in RightEdges /\ current_pos[1] >= oep1[1]
                 \/ resize_edge \in TopEdges /\ current_pos[1] <= oep1[1]
                 \/ resize_edge \in BottomEdges /\ current_pos[1] >= oep1[1]
  IN  IF neg1 /\ back THEN [neg |-> FALSE, edge_pos |-> None]
      ELSE [neg |-> neg1, edge_pos |-> oep1]

\* the resize branch once adjust_rect_size has returned adj and the latch
\* bookkeeping left latch
store_adjusted(adj, latch) ==
  /\ is_negative_resize' = latch.neg
  /\ original_edge_pos' = latch.edge_pos
  /\ rel_start_pos' = to_relative_pos(topLeft(adj.rect))
  /\ rel_end_pos' = to_relative_pos(bottomRight(adj.rect))

after_adjust(adj, pos) ==
  store_adjusted(adj, latch_after(adj.rect, adj.is_min_size, pos))

\* the resize branch, rect being what get_current_rect returns
resize_to(pos, rect) ==
  IF last_pos # None /\ rect_bool(rect)
  THEN after_adjust(
         adjust_rect_size(rect[1], resize_edge,
                          QPoint(pos.x - last_pos[1].x, pos.y - last_pos[1].y)),
         pos)
  ELSE UNCHANGED <<rel_start_pos, rel_end_pos, latch_vars>>

\* the drawing branch, pos limited to current_pixmap_rect and rel_pos its
\* relative position
draw_to(pos, rel_pos) ==
  /\ rel_end_pos' = IF point_bool(rel_pos) THEN rel_pos ELSE rel_end_pos
  /\ last_pos' = Some(pos)
  /\ UNCHANGED <<rel_start_pos, latch_vars>>

\* mouseMoveEvent stopped by a ZeroDivisionError before it stored anything
move_raised ==
  /\ UNCHANGED <<rel_start_pos, rel_end_pos, last_pos, latch_vars>>
  /\ ret' = "ZeroDivisionError"

\* to_relative_pos(pos) and the drawing branch, a being the rendered image
\* area
draw_in(pos, a) ==
  IF Degenerate(a) THEN move_raised
  ELSE draw_to(pos, RelativeIn(pos, a)) /\ ret' = "none"

draw_limited(pos) ==
  IF current_pixmap_rect = None \/ original_pixmap = None
  THEN draw_to(pos, None) /\ ret' = "none"
  ELSE IF AspectRaises(original_pixmap[1], current_pixmap_rect[1])
  THEN move_raised
  ELSE draw_in(pos, actual_rect)

\* pos limited to the rectangle c, when there is one
limit_pos(pos, c) ==
  IF rect_bool(c)
  THEN QPoint(Max(c[1].x1, Min(pos.x, c[1].x2)),
              Max(c[1].y1, Min(pos.y, c[1].y2)))
  ELSE pos

\* mouseMoveEvent without its idle branch, drawing whenever it is not
\* resizing: the variant against which the idle pointer-move (C29) is checked
mouseMoveEvent_always_drawing(pos) ==
  /\ Handled("move")
  /\ UNCHANGED <<image_vars, is_drawing, is_resizing, resize_edge>>
  /\ IF is_resizing /\ resize_edge # "NONE"
     THEN IF last_pos # None /\ get_current_rect_raises
          THEN move_raised
          ELSE /\ resize_to(pos, get_current_rect)
               /\ last_pos' = Some(pos)
               /\ ret' = "none"
     ELSE draw_limited(limit_pos(pos, current_pixmap_rect))

\* ImageLabel.mouseMoveEvent with the pointer at widget point pos
mouseMoveEvent(pos) ==
  /\ Handled("move")
  /\ UNCHANGED <<image_vars, is_drawing, is_resizing, resize_edge>>
  /\ IF is_resizing /\ resize_edge # "NONE"
     THEN IF last_pos # None /\ get_current_rect_raises
          THEN move_raised
          ELSE /\ resize_to(pos, get_current_rect)
               /\ last_pos' = Some(pos)
               /\ ret' = "none"
     ELSE IF is_drawing
     THEN draw_limited(limit_pos(pos, current_pixmap_rect))
     ELSE IF get_current_rect_raises
     THEN move_raised
     ELSE /\ last_pos' = Some(pos)
          /\ UNCHANGED <<rel_start_pos, rel_end_pos, latch_vars>>
          /\ ret' = "none"

\* mouseReleaseEvent without its reset of last_pos: the variant against which
\* the state after a release (C13) is checked
mouseReleaseEvent_keeping_last_pos ==
  /\ Observe("release", "none")
  /\ is_drawing' = FALSE
  /\ is_resizing' = FALSE
  /\ resize_edge' = "NONE"
  /\ is_negative_resize' = FALSE
  /\ original_edge_pos' = None
  /\ UNCHANGED <<image_vars, rel_start_pos, rel_end_pos, last_pos>>

\* ImageLabel.mouseReleaseEvent, left button
mouseReleaseEvent ==
  /\ Observe("release", "none")
  /\ is_drawing' = FALSE
  /\ is_resizing' = FALSE
  /\ resize_edge' = "NONE"
  /\ last_pos' = None
  /\ is_negative_resize' = FALSE
  /\ original_edge_pos' = None
  /\ UNCHANGED <<image_vars, rel_start_pos, rel_end_pos>>

\* MainWindow.clear_selection (Esc)
MainWindow_clear_selection ==
  /\ Observe("clear", "none")
  /\ IF label_pixmap THEN clear_selection ELSE UNCHANGED selection_vars
  /\ UNCHANGED <<image_vars, latch_vars>>

\* copy_to_clipboard refusing to copy the whole image: the variant against
\* which the copy without a selection (C18) is checked
copy_to_clipboard_of_selection ==
  IF original_pixmap # None /\ rect_bool(get_selection_rect)
  THEN "true" ELSE "false"

\* ImageLabel.copy_to_clipboard: what it returns (the selection, or else the
\* whole buffer, goes to the clipboard; no state of the widget changes)
copy_to_clipboard == IF original_pixmap # None THEN "true" ELSE "false"

\* MainWindow.copy_image (Ctrl+C)
MainWindow_copy_image ==
  /\ Observe("copy", IF label_pixmap THEN copy_to_clipboard ELSE "none")
  /\ UNCHANGED widget

(***************************************************************************)
(* Specifications                                                          *)
(***************************************************************************)
\* the file the model loads: 100 x 50 pixels, first shown as 800 x 400 at (10, 60)
File == Pixmap("a", 0, 0, 100, 50, 0)
Images == {File}

\* rotation angles the dialog is accepted with
Angles == {0, 90, 360}

\* pointer positions of the main specification: relative (0.2, 0.2) and
\* (0.6, 0.6) of the file as first shown
Points == {QPoint(170, 140), QPoint(490, 300)}

\* pointer positions of the pointer specification: the same two corners, a
\* point on the left edge of the selection they span, an interior point, and
\* a point of the widget above the image, level with the image's left edge
PointerPoints ==
  {QPoint(170, 140), QPoint(490, 300), QPoint(170, 220), QPoint(330, 220),
   QPoint(10, 20)}

Init ==
  /\ original_pixmap = None
  /\ label_pixmap = FALSE
  /\ current_pixmap_rect = None
  /\ history = <<>>
  /\ history_index = -1
  /\ rel_start_pos = None
  /\ rel_end_pos = None
  /\ is_drawing = FALSE
  /\ is_resizing = FALSE
  /\ resize_edge = "NONE"
  /\ last_pos = None
  /\ is_negative_resize = FALSE
  /\ original_edge_pos = None
  /\ op = "init"
  /\ ret = "none"
  /\ loaded = None
  /\ last_edit = None
  /\ undo_run = None

\* every handler, histories up to MaxHist; the pointer draws a selection when
\* there is none and drags while drawing (SpecPointer has the other gestures)
Next ==
  \/ \E img \in Images : load_image(img)
  \/ \E pos \in Points : rel_start_pos = None /\ mousePressEvent(pos)
  \/ \E pos \in Points : is_drawing /\ mouseMoveEvent(pos)
  \/ mouseReleaseEvent
  \/ Len(history) < MaxHist /\ MainWindow_trim_image
  \/ \E angle \in Angles : Len(history) < MaxHist /\ MainWindow_rotate_image(angle)
  \/ MainWindow_undo_last_image
  \/ MainWindow_reset_to_original
  \/ MainWindow_clear_selection
  \/ MainWindow_copy_image

Spec == Init /\ [][Next]_vars

\* pointer gestures on the loaded file
NextPointer ==
  \/ \E img \in Images : load_image(img)
  \/ \E pos \in PointerPoints : mousePressEvent(pos)
  \/ \E pos \in PointerPoints : mouseMoveEvent(pos)
  \/ mouseReleaseEvent
  \/ MainWindow_clear_selection

SpecPointer == Init /\ [][NextPointer]_vars

\* pointer positions of the move specification: the two corners, the centre of
\* the selection they span, and a point as far right of the centre as the
\* selection is wide
MovePoints ==
  {QPoint(170, 140), QPoint(490, 300), QPoint(330, 220), QPoint(650, 220)}

\* gestures that draw a selection and drag it about
NextMove ==
  \/ \E img \in Images : load_image(img)
  \/ \E pos \in MovePoints : mousePressEvent(pos)
  \/ \E pos \in MovePoints : mouseMoveEvent(pos)
  \/ mouseReleaseEvent

SpecMove == Init /\ [][NextMove]_vars

\* pointer positions of the clipping specification: the two corners of the
\* main specification, a point of the widget above the image and a point
\* of the widget below and right of the image
ClipPoints ==
  {QPoint(170, 140), QPoint(490, 300), QPoint(10, 20), QPoint(815, 480)}

\* selections drawn from inside or outside the image, and crops to them
NextClip ==
  \/ \E img \in Images : load_image(img)
  \/ \E pos \in ClipPoints : rel_start_pos = None /\ mousePressEvent(pos)
  \/ \E pos \in ClipPoints : is_drawing /\ mouseMoveEvent(pos)
  \/ mouseReleaseEvent
  \/ Len(history) < MaxHist /\ MainWindow_trim_image
  \/ MainWindow_clear_selection

SpecClip == Init /\ [][NextClip]_vars

\* pointer positions of the replacing specification: the two corners of the
\* main specification
ReplacePoints == {QPoint(170, 140), QPoint(490, 300)}

\* every operation that replaces the image, at any moment of any gesture;
\* the pointer is pressed on the image as loaded, and moves during a gesture
\* and once after the selection was cleared (last_pos is None then)
NextReplace ==
  \/ \E img \in Images : load_image(img)
  \/ \E pos \in ReplacePoints : history_index <= 0 /\ mousePressEvent(pos)
  \/ \E pos \in ReplacePoints :
        (is_drawing \/ is_resizing \/ last_pos = None) /\ mouseMoveEvent(pos)
  \/ (is_drawing \/ is_resizing) /\ mouseReleaseEvent
  \/ Len(history) < MaxHist /\ MainWindow_trim_image
  \/ Len(history) < MaxHist /\ MainWindow_rotate_image(90)
  \/ MainWindow_undo_last_image
  \/ MainWindow_reset_to_original

SpecReplace == Init /\ [][NextReplace]_vars

\* selections of the edge specification: from a corner well inside the image
\* (two of them) or near its bottom right corner, 4, 8, 10 or 15 pixels along
\* each axis (the far corner limited to the image as the drawing gesture
\* limits it)
EdgeAnchors == {QPoint(170, 140), QPoint(400, 300), QPoint(797, 447)}
EdgeExtents == {3, 7, 9, 14}

\* where the edge specification presses: on and about the selections, and on
\* the top left pixel of the image
EdgePoints ==
  {QPoint(171, 141), QPoint(173, 143), QPoint(179, 145), QPoint(184, 154),
   QPoint(402, 302), QPoint(800, 450), QPoint(809, 459), QPoint(10, 60)}

\* the states a load of the file, a press at p1, a drag to p2 and a release
\* lead to
InitEdge ==
  \E p1 \in EdgeAnchors, dx \in EdgeExtents, dy \in EdgeExtents :
    /\ original_pixmap = Some(File)
    /\ label_pixmap = TRUE
    /\ current_pixmap_rect = Some(ScaledPixmapRect(File))
    /\ history = <<File>>
    /\ history_index = 0
    /\ rel_start_pos = ToRelativePos(p1, Some(File), Some(ScaledPixmapRect(File)))
    /\ rel_end_pos =
         ToRelativePos(limit_pos(QPoint(p1.x + dx, p1.y + dy),
                                 Some(ScaledPixmapRect(File))),
                       Some(File), Some(ScaledPixmapRect(File)))
    /\ is_drawing = FALSE
    /\ is_resizing = FALSE
    /\ resize_edge = "NONE"
    /\ last_pos = None
    /\ is_negative_resize = FALSE
    /\ original_edge_pos = None
    /\ op = "release"
    /\ ret = "none"
    /\ loaded = Some(File)
    /\ last_edit = None
    /\ undo_run = None

\* presses on and about a selection, each classified by get_edge_at_position
NextEdge ==
  \/ \E pos \in EdgePoints : mousePressEvent(pos)
  \/ mouseReleaseEvent

SpecEdge == InitEdge /\ [][NextEdge]_vars

\* files of other shapes: a long page (20 x 3000, shown 3 x 500 with the image
\* area 450 high inside it), a sliver (1000 x 1, shown 800 x 1) and a file
\* that cannot be decoded (the null buffer)
Tall == Pixmap("t", 0, 0, 20, 3000, 0)
Sliver == Pixmap("s", 0, 0, 1000, 1, 0)
Broken == Pixmap("b", 0, 0, 0, 0, 0)

\* pointer positions of the shapes specification: the top of the long page's
\* image area, a point of its display rectangle below that area, and points
\* of the first file's image area on and off the long page
ShapePoints ==
  {QPoint(409, 35), QPoint(410, 500), QPoint(409, 400), QPoint(170, 140)}

\* loads of every shape, and the gestures that start selections on them
NextShapes ==
  \/ \E img \in {File, Tall, Sliver, Broken} : load_image(img)
  \/ \E pos \in ShapePoints : mousePressEvent(pos)
  \/ \E pos \in ShapePoints : mouseMoveEvent(pos)
  \/ mouseReleaseEvent
  \/ MainWindow_clear_selection

SpecShapes == Init /\ [][NextShapes]_vars

\* long histories: half turns of the file, up to MaxOver past max_history
NextCapacity ==
  \/ \E img \in Images : load_image(img)
  \/ \E angle \in {0, 180} :
       Len(history) < max_history + MaxOver /\ MainWindow_rotate_image(angle)
  \/ MainWindow_undo_last_image
  \/ MainWindow_reset_to_original

SpecCapacity == Init /\ [][NextCapacity]_vars

(***************************************************************************)
(* Properties                                                              *)
(***************************************************************************)
\* the last handler was a successful crop or rotate
just_edited == last_edit # None /\ last_edit[1].age = 0 /\ op = last_edit[1].op

\* the last handler ran immediately after a successful crop / rotate
after_edit(o) == last_edit # None /\ last_edit[1].age = 1 /\ last_edit[1].op = o

\* floor(q * n) for a fraction q
FloorMul(q, n) == (q.n * n) \div q.d

\* a relative coordinate in [0, 1]
in_unit(q) == 0 <= q.n /\ q.n <= q.d

\* C1: after every successful crop or rotate, the entry appended to the
\* history is the buffer that was current immediately before the operation,
\* and the current buffer is the operation's result.
C1_PushesPreOperationBuffer ==
  just_edited =>
    LET e == last_edit[1]
    IN  /\ Len(history) > 0
        /\ history[Len(history)] = e.buffer
        /\ original_pixmap = Some(
             IF e.op = "trim"
             THEN copy(e.buffer,
                       SelectionRect(e.sel[1], e.sel[2], Some(e.buffer), TRUE)[1])
             ELSE rotated(e.buffer, e.angle))

\* C2: a successful crop or rotate followed immediately by one undo leaves the
\* current buffer equal to the buffer before that crop or rotate.
C2_UndoRestoresPreOperationBuffer ==
  (op = "undo" /\ ret = "true" /\ (after_edit("trim") \/ after_edit("rotate")))
    => original_pixmap = Some(last_edit[1].buffer)

\* C3: whenever the history is non-empty its first entry (history[0] in the
\* code) is the image of the most recent load, and a successful reset makes
\* the current buffer that image.
C3_BaseIsLoadedImage ==
  /\ Len(history) > 0 => Some(history[1]) = loaded
  /\ (op = "reset" /\ ret = "true") => original_pixmap = loaded

\* C4 (as stated): a crop followed immediately by a reset restores the buffer
\* that was current just before the crop, while the history has not
\* overflowed.
C4_ResetRestoresPreCropBuffer ==
  (op = "reset" /\ ret = "true" /\ after_edit("trim")
   /\ Len(history) <= max_history)
    => original_pixmap = Some(last_edit[1].buffer)

\* C4 (amended): a crop followed immediately by a reset makes the current
\* buffer the snapshot that was the oldest of the history before the crop
\* (the pre-crop buffer itself when the history was empty), and leaves it as
\* the history's only entry.
C4_ResetRestoresOldestSnapshot ==
  (op = "reset" /\ ret = "true" /\ after_edit("trim"))
    => /\ original_pixmap = Some(last_edit[1].base)
       /\ history = <<last_edit[1].base>>

\* a crop of a buffer other than the oldest snapshot, then a reset
C4_Witness ==
  /\ op = "reset" /\ ret = "true" /\ after_edit("trim")
  /\ last_edit[1].base # last_edit[1].buffer
  /\ original_pixmap = Some(last_edit[1].base)

\* C5: in a run of consecutive undo calls begun with N history entries, the
\* first N calls succeed and every later one (the (N+1)-th first) does not.
C5_UndoSucceedsExactlyNTimes ==
  (op = "undo" /\ undo_run # None)
    => (ret = "true" <=> undo_run[2] <= undo_run[1])

\* the failing (N+1)-th undo after N = max_history successful ones
C5_Witness ==
  /\ op = "undo" /\ ret = "false"
  /\ undo_run = <<max_history, max_history + 1>>
  /\ history = <<>>

\* C6: the length of the history never exceeds max_history.
C6_HistoryBounded == Len(history) <= max_history

\* C7: after every pointer move of a resize gesture on an edge or corner, the
\* selection rectangle exists and is at least MIN_SIZE wide and high.
C7_ResizeKeepsMinSize ==
  (op = "move" /\ is_resizing /\ resize_edge \notin {"NONE", "MOVE"})
    => /\ rect_bool(get_current_rect)
       /\ width(get_current_rect[1]) >= MIN_SIZE
       /\ height(get_current_rect[1]) >= MIN_SIZE

\* C8: while the left edge is dragged and the pointer is right of the
\* selection's right boundary less MIN_SIZE, the latch is set and the left
\* boundary stands MIN_SIZE left of the right one.
C8_LeftEdgeFreezesAtMinSize ==
  (op = "move" /\ is_resizing /\ resize_edge = "LEFT"
   /\ rect_bool(get_current_rect) /\ last_pos # None
   /\ last_pos[1].x > get_current_rect[1].x2 - MIN_SIZE)
    => /\ is_negative_resize
       /\ width(get_current_rect[1]) <= MIN_SIZE + 1

\* C9: for a selection with both points inside the image and a non-empty
\* floor box, the crop rectangle is the box with corners (floor(s.x * W),
\* floor(s.y * H)) and (floor(e.x * W), floor(e.y * H)), and a successful crop
\* yields a buffer of that width and height.
C9_CropRectIsFloorBox ==
  /\ (label_pixmap /\ point_bool(rel_start_pos) /\ point_bool(rel_end_pos)
      /\ \A q \in {rel_start_pos[1].x, rel_start_pos[1].y,
                   rel_end_pos[1].x, rel_end_pos[1].y} : in_unit(q))
     => LET W == pm_width(original_pixmap[1])
            H == pm_height(original_pixmap[1])
            sx == FloorMul(rel_start_pos[1].x, W)
            sy == FloorMul(rel_start_pos[1].y, H)
            ex == FloorMul(rel_end_pos[1].x, W)
            ey == FloorMul(rel_end_pos[1].y, H)
        IN  (sx # ex /\ sy # ey)
              => get_selection_rect =
                   Some(QRect(Min(sx, ex), Min(sy, ey), Abs(ex - sx), Abs(ey - sy)))
  /\ (just_edited /\ op = "trim"
      /\ \A q \in {last_edit[1].sel[1][1].x, last_edit[1].sel[1][1].y,
                   last_edit[1].sel[2][1].x, last_edit[1].sel[2][1].y} : in_unit(q))
     => LET e == last_edit[1]
            W == pm_width(e.buffer)
            H == pm_height(e.buffer)
        IN  /\ pm_width(original_pixmap[1]) =
                 Abs(FloorMul(e.sel[2][1].x, W) - FloorMul(e.sel[1][1].x, W))
            /\ pm_height(original_pixmap[1]) =
                 Abs(FloorMul(e.sel[2][1].y, H) - FloorMul(e.sel[1][1].y, H))

\* C10: swapping the stored start and end points changes neither the
\* on-screen rectangle nor the pixel rectangle used by crop and copy.
C10_SelectionOrderIndependent ==
  (label_pixmap /\ point_bool(rel_start_pos) /\ point_bool(rel_end_pos))
    => /\ CurrentRect(rel_start_pos, rel_end_pos, original_pixmap, current_pixmap_rect)
          = CurrentRect(rel_end_pos, rel_start_pos, original_pixmap, current_pixmap_rect)
       /\ SelectionRect(rel_start_pos, rel_end_pos, original_pixmap, label_pixmap)
          = SelectionRect(rel_end_pos, rel_start_pos, original_pixmap, label_pixmap)

\* C11: whenever a selection exists, the four stored relative coordinates lie
\* in [0, 1], wherever in the widget the pointer events occurred.
C11_SelectionPointsInUnitSquare ==
  (rel_start_pos # None /\ rel_end_pos # None)
    => \A q \in {rel_start_pos[1].x, rel_start_pos[1].y,
                 rel_end_pos[1].x, rel_end_pos[1].y} : in_unit(q)

\* C12: the two selection points are stored together: in every state either
\* both rel_start_pos and rel_end_pos are set or both are absent.
C12_PointsSetTogether == (rel_start_pos = None) <=> (rel_end_pos = None)

\* a resize gesture has just stored two distinct points
C12_Witness ==
  /\ op = "move" /\ is_resizing
  /\ rel_start_pos # None /\ rel_end_pos # None
  /\ rel_start_pos # rel_end_pos

\* C13: after every left-button release the interaction mode is Idle (not
\* drawing, not resizing, edge NONE) and the transient drag fields last_pos,
\* is_negative_resize and original_edge_pos are cleared, whatever presses and
\* moves came before.
C13_ReleaseLeavesIdle ==
  op = "release"
    => /\ ~is_drawing /\ ~is_resizing /\ resize_edge = "NONE"
       /\ last_pos = None
       /\ ~is_negative_resize /\ original_edge_pos = None

\* a release that ended a drag which left a selection of two distinct points
C13_Witness ==
  /\ op = "release"
  /\ rel_start_pos # None /\ rel_end_pos # None /\ rel_start_pos # rel_end_pos
  /\ ~is_drawing /\ ~is_resizing /\ last_pos = None

\* a pointer move of a Resizing(Move) gesture whose translation of the
\* selection by the pointer delta leaves the rendered image area a
move_crossing(a) ==
  /\ op' = "move" /\ is_resizing /\ resize_edge = "MOVE"
  /\ last_pos # None /\ last_pos' # None
  /\ rect_bool(get_current_rect)
  /\ LET t == translate(get_current_rect[1],
                        QPoint(last_pos'[1].x - last_pos[1].x,
                               last_pos'[1].y - last_pos[1].y))
     IN  t.x1 < a.x1 \/ t.x2 > a.x2 \/ t.y1 < a.y1 \/ t.y2 > a.y2

\* rectangle t shifted back, on each axis, by what it overshoots a
slid_into(t, a) ==
  translate(t, QPoint(IF t.x1 < a.x1 THEN a.x1 - t.x1
                      ELSE IF t.x2 > a.x2 THEN a.x2 - t.x2 ELSE 0,
                      IF t.y1 < a.y1 THEN a.y1 - t.y1
                      ELSE IF t.y2 > a.y2 THEN a.y2 - t.y2 ELSE 0))

\* C14 (as stated): in Resizing(Move), a pointer move whose translation of the
\* selection would extend outside the rendered image area is rejected: the
\* selection's rectangle is left where it was.
C14_MoveOutsideRejected ==
  [][move_crossing(actual_rect)
       => /\ rel_start_pos' = to_relative_pos(topLeft(get_current_rect[1]))
          /\ rel_end_pos' = to_relative_pos(bottomRight(get_current_rect[1]))]_vars

\* C14 (amended): in Resizing(Move), a pointer move whose translation of the
\* selection would extend outside the rendered image area stores the
\* translated rectangle slid back inside on every side it overshoots, its
\* size kept.
C14_MoveOutsideSlides ==
  [][move_crossing(actual_rect)
       => LET t == translate(get_current_rect[1],
                             QPoint(last_pos'[1].x - last_pos[1].x,
                                    last_pos'[1].y - last_pos[1].y))
          IN  /\ rel_start_pos' = to_relative_pos(topLeft(slid_into(t, actual_rect)))
              /\ rel_end_pos' =
                   to_relative_pos(bottomRight(slid_into(t, actual_rect)))]_vars

\* a selection as wide as the drawn one, dragged against the right side of the
\* rendered image area by a pointer that went further
C14_Witness ==
  /\ op = "move" /\ is_resizing /\ resize_edge = "MOVE"
  /\ last_pos = Some(QPoint(650, 220))
  /\ rect_bool(get_current_rect)
  /\ get_current_rect[1].x2 = actual_rect.x2
  /\ width(get_current_rect[1]) = 321

\* C15: a crop with no selection, or with a selection whose on-screen or pixel
\* rectangle is empty (a click without a drag), changes nothing: the current
\* buffer, the history, the history index and the two selection points stay
\* as they were.
C15_CropWithoutRectangleIsNoOp ==
  [][(op' = "trim"
      /\ (\/ rel_start_pos = None
          \/ rel_end_pos = None
          \/ ~rect_bool(get_current_rect)
          \/ ~rect_bool(get_selection_rect)))
       => UNCHANGED <<original_pixmap, history, history_index,
                      rel_start_pos, rel_end_pos>>]_vars

\* a crop attempted on the selection a click without a drag leaves: both
\* points set and equal, an on-screen rectangle of one pixel, no pixel rectangle
C15_Witness ==
  /\ op = "trim" /\ ret = "none"
  /\ original_pixmap # None
  /\ rel_start_pos # None /\ rel_start_pos = rel_end_pos
  /\ rect_bool(get_current_rect)
  /\ ~rect_bool(get_selection_rect)

\* C16: with an empty history, undo and reset to original do not succeed (they
\* return false whenever an image is shown) and leave the current buffer, the
\* selection, the interaction mode and the history as they were.
C16_EmptyHistoryUndoResetFail ==
  [][(Len(history) = 0 /\ op' \in {"undo", "reset"})
       => /\ ret' # "true"
          /\ label_pixmap => ret' = "false"
          /\ UNCHANGED <<original_pixmap, history, rel_start_pos, rel_end_pos,
                         is_drawing, is_resizing, resize_edge>>]_vars

\* an undo refused while a selection is being drawn on an image whose history
\* earlier undos have emptied
C16_Witness ==
  /\ op = "undo" /\ ret = "false"
  /\ history = <<>> /\ original_pixmap # None
  /\ rel_start_pos # None /\ rel_end_pos # None /\ is_drawing
  /\ undo_run # None /\ undo_run[1] = 0

\* C17: a successful reset leaves the history with exactly one entry, the
\* snapshot that was its first, the index 0 and the current buffer equal to
\* that entry; a second reset immediately after the first succeeds and changes
\* nothing.
C17_ResetCollapsesAndIsIdempotent ==
  [][/\ (op' = "reset" /\ ret' = "true")
          => /\ history' = <<history[1]>>
             /\ history_index' = 0
             /\ original_pixmap' = Some(history[1])
     /\ (op = "reset" /\ ret = "true" /\ op' = "reset")
          => /\ ret' = "true"
             /\ UNCHANGED widget]_vars

\* a reset right after a rotate, which had left two or more snapshots: one
\* snapshot remains, the loaded image, and it is the current buffer
C17_Witness ==
  /\ op = "reset" /\ ret = "true" /\ after_edit("rotate")
  /\ last_edit[1].base # rotated(last_edit[1].buffer, last_edit[1].angle)
  /\ history = <<last_edit[1].base>>
  /\ history_index = 0
  /\ original_pixmap = Some(last_edit[1].base)

\* C18: a copy to the clipboard succeeds whenever an image is loaded, with or
\* without a selection, does not succeed otherwise, and in both cases leaves
\* the current buffer, the selection, the interaction mode and the history as
\* they were.
C18_CopySucceedsAndChangesNothing ==
  [][op' = "copy"
       => /\ ret' = "true" <=> original_pixmap # None
          /\ UNCHANGED <<original_pixmap, history, history_index,
                         rel_start_pos, rel_end_pos,
                         is_drawing, is_resizing, resize_edge>>]_vars

\* a successful copy of an image that has no selection
C18_Witness ==
  /\ op = "copy" /\ ret = "true"
  /\ original_pixmap # None
  /\ rel_start_pos = None /\ rel_end_pos = None

Corners == {"TOP_LEFT", "TOP_RIGHT", "BOTTOM_LEFT", "BOTTOM_RIGHT"}

\* a distance within the threshold
within(d) == d < EDGE_THRESHOLD

\* the widget points on and around rectangle r, to one pixel beyond the
\* threshold
probes(r) ==
  {QPoint(px, py) :
     px \in (r.x1 - EDGE_THRESHOLD - 1)..(r.x2 + EDGE_THRESHOLD + 1),
     py \in (r.y1 - EDGE_THRESHOLD - 1)..(r.y2 + EDGE_THRESHOLD + 1)}

\* what C19 says of the classification e of pos against selection rectangle
\* rect in the rendered image area a
corner_move_none(rect, a, pos, e) ==
  LET inside == contains(rect, pos) /\ contains(a, pos)
      left == within(Abs(pos.x - rect.x1))
      right == within(Abs(pos.x - rect.x2))
      top == within(Abs(pos.y - rect.y1))
      bottom == within(Abs(pos.y - rect.y2))
  IN  /\ (inside /\ (top \/ bottom) /\ (left \/ right)) => e \in Corners
      /\ e = "MOVE" <=> (inside /\ ~left /\ ~right /\ ~top /\ ~bottom)
      /\ (~contains(rect, pos) \/ ~contains(a, pos)) => e = "NONE"

classified_by_C19(current, a) ==
  \A pos \in probes(current[1]) :
    corner_move_none(current[1], a, pos, EdgeAt(current, a, pos))

\* C19: for a selection and every point on and around it,
\* get_edge_at_position returns a corner when the point is inside and within
\* the threshold of two adjacent boundaries, MOVE exactly when it is inside and
\* within the threshold of none, and NONE when it is outside the selection
\* rectangle or outside the rendered image area.
C19_CornerBeatsEdgeMoveInsideNoneOutside ==
  rect_bool(get_current_rect) => classified_by_C19(get_current_rect, actual_rect)

\* a press within the threshold of the top and the left boundary of a
\* selection, classified as its top left corner
C19_Witness ==
  /\ op = "press" /\ is_resizing /\ resize_edge = "TOP_LEFT"
  /\ last_pos # None /\ rect_bool(get_current_rect)
  /\ contains(get_current_rect[1], last_pos[1])
  /\ within(Abs(last_pos[1].x - get_current_rect[1].x1))
  /\ within(Abs(last_pos[1].y - get_current_rect[1].y1))
  /\ last_pos[1].x > get_current_rect[1].x1

\* what C20 says of the classification e of a point pos inside rectangle rect
\* and within the threshold of a boundary: e names a boundary, and on each
\* axis the boundary it names is not the farther of the two
nearest(rect, pos, e) ==
  LET left == Abs(pos.x - rect.x1)
      right == Abs(pos.x - rect.x2)
      top == Abs(pos.y - rect.y1)
      bottom == Abs(pos.y - rect.y2)
  IN  (contains(rect, pos)
       /\ (within(left) \/ within(right) \/ within(top) \/ within(bottom)))
        => /\ e \notin {"NONE", "MOVE"}
           /\ e \in LeftEdges => left <= right
           /\ e \in RightEdges => right <= left
           /\ e \in TopEdges => top <= bottom
           /\ e \in BottomEdges => bottom <= top

classified_by_C20(current, a) ==
  \A pos \in probes(current[1]) :
    contains(a, pos) => nearest(current[1], pos, EdgeAt(current, a, pos))

\* C20: for a selection of any size and every point inside it that is within
\* the threshold of a boundary, get_edge_at_position returns the edge or
\* corner nearest to the point.
C20_NearestEdgeOrCorner ==
  rect_bool(get_current_rect) => classified_by_C20(get_current_rect, actual_rect)

\* a press has just started a selection at the pointer, inside the rendered
\* image area
started_inside ==
  /\ op = "press" /\ ret = "none" /\ is_drawing /\ last_pos # None
  /\ ~is_resizing
  /\ rel_start_pos = to_relative_pos(last_pos[1])
  /\ rel_end_pos = rel_start_pos
  /\ contains(actual_rect, last_pos[1])

\* p and q are at most one pixel apart along each axis
one_pixel(p, q) == Abs(p.x - q.x) <= 1 /\ Abs(p.y - q.y) <= 1

\* C21: a widget point inside the rendered image area, converted to relative
\* coordinates by to_relative_pos and back by to_local_pos, comes back within
\* one pixel of where it was.
C21_RoundTripWithinOnePixel ==
  started_inside =>
    /\ to_local_pos(rel_start_pos) # None
    /\ one_pixel(to_local_pos(rel_start_pos)[1], last_pos[1])

\* C22: a rotation by 0 degrees leaves a current buffer with the dimensions
\* and the pixels of the buffer it was given, and a rotation by 360 degrees
\* leaves the same buffer as the rotation by 0 degrees.
C22_RotateZeroAndFullTurn ==
  (just_edited /\ op = "rotate" /\ last_edit[1].angle \in {0, 360}) =>
    /\ original_pixmap = Some(rotated(last_edit[1].buffer, 0))
    /\ original_pixmap = Some(last_edit[1].buffer)
    /\ pm_width(original_pixmap[1]) = pm_width(last_edit[1].buffer)
    /\ pm_height(original_pixmap[1]) = pm_height(last_edit[1].buffer)

\* a rotation by 360 degrees has just run on a buffer other than the file as
\* it was loaded
C22_Witness ==
  /\ just_edited /\ op = "rotate" /\ last_edit[1].angle = 360
  /\ last_edit[1].buffer # File
  /\ original_pixmap = Some(last_edit[1].buffer)


\* C23: no pointer event divides by zero, however thin the loaded image is
\* shown (the buffer itself being a decoded image, with pixels).
C23_NoDivisionByZero ==
  (/\ op \in {"press", "move", "release"}
   /\ original_pixmap # None
   /\ pm_width(original_pixmap[1]) > 0 /\ pm_height(original_pixmap[1]) > 0)
    => ret # "ZeroDivisionError"


\* C24: a load whose file cannot be decoded raises nothing and leaves the
\* current buffer, the history and the selection as they were.
C24_FailedLoadIsLocal ==
  [][(op' = "load" /\ loaded' # None /\ pm_width(loaded'[1]) = 0) =>
       /\ ret' # "ZeroDivisionError"
       /\ UNCHANGED <<original_pixmap, history, history_index,
                      rel_start_pos, rel_end_pos>>]_vars

\* C25: right after a successful load the history is the loaded image alone,
\* the history index is 0 and the current buffer is the loaded image,
\* whatever the state before.
C25_LoadStartsHistory ==
  (op = "load" /\ ret = "none") =>
    /\ history = <<loaded[1]>>
    /\ history_index = 0
    /\ original_pixmap = loaded

\* a load has just replaced the result of a crop, made the handler before
C25_Witness ==
  /\ op = "load" /\ ret = "none" /\ after_edit("trim")
  /\ history = <<loaded[1]>>
  /\ original_pixmap = Some(File)

\* pos is not on the selection rectangle (or there is none)
off_selection(pos) ==
  ~rect_bool(get_current_rect) \/ ~contains(get_current_rect[1], pos)

\* C26: a press inside the rendered image area and off the selection (or with
\* no selection) discards the old selection, stores the pressed point, in
\* relative coordinates, as both points of a new one, and enters Drawing.
C26_PressStartsSelection ==
  [][\A pos \in EdgePoints :
       (/\ label_pixmap /\ original_pixmap # None
        /\ contains(actual_rect, pos) /\ off_selection(pos)
        /\ mousePressEvent(pos))
         => /\ rel_start_pos' = to_relative_pos(pos)
            /\ rel_end_pos' = to_relative_pos(pos)
            /\ is_drawing' /\ ~is_resizing']_vars

\* C27: a press on the selection rectangle enters Resizing with the edge that
\* get_edge_at_position's classification gives for the pressed point (MOVE
\* exactly when the point is not within the threshold of any side), resets
\* the negative-resize latch and leaves the selection's two points alone.
C27_PressOnSelectionResizes ==
  [][\A pos \in EdgePoints :
       (/\ label_pixmap /\ rect_bool(get_current_rect)
        /\ contains(get_current_rect[1], pos)
        /\ mousePressEvent(pos))
         => /\ is_resizing'
            /\ resize_edge' = EdgeOf(get_current_rect[1], pos)
            /\ resize_edge' # "NONE"
            /\ (resize_edge' = "MOVE") <=>
                 (\A d \in {pos.x - get_current_rect[1].x1,
                            get_current_rect[1].x2 - pos.x,
                            pos.y - get_current_rect[1].y1,
                            get_current_rect[1].y2 - pos.y} : ~within(d))
            /\ ~is_negative_resize' /\ original_edge_pos' = None
            /\ UNCHANGED <<rel_start_pos, rel_end_pos>>]_vars

\* a press has taken hold of a single side of the selection
C27_Witness ==
  /\ op = "press" /\ is_resizing /\ last_pos # None
  /\ rect_bool(get_current_rect)
  /\ contains(get_current_rect[1], last_pos[1])
  /\ resize_edge \in {"LEFT", "RIGHT", "TOP", "BOTTOM"}
  /\ resize_edge = EdgeOf(get_current_rect[1], last_pos[1])

\* C28: a pointer-move in Drawing mode, a decoded image being shown, leaves
\* the selection's start point alone and stores as its end point the pointer
\* position limited to the rendered image area, which lies in [0,1] x [0,1].
C28_DrawingMoveSetsClampedEnd ==
  [][\A pos \in ShapePoints :
       (/\ is_drawing /\ ~is_resizing
        /\ original_pixmap # None /\ pm_height(original_pixmap[1]) > 0
        /\ mouseMoveEvent(pos))
         => /\ UNCHANGED rel_start_pos
            /\ rel_end_pos' = to_relative_pos(limit_pos(pos, Some(actual_rect)))
            /\ in_unit(rel_end_pos'[1].x) /\ in_unit(rel_end_pos'[1].y)]_vars

\* C29: a pointer-move in Idle mode changes neither the selection, the mode,
\* the current buffer nor the history.
C29_IdleMoveChangesNothing ==
  [][(~is_drawing /\ ~is_resizing /\ op' = "move") =>
       UNCHANGED <<rel_start_pos, rel_end_pos, is_drawing, is_resizing,
                   resize_edge, original_pixmap, history, history_index>>]_vars

\* the pointer has just moved over the image in Idle mode, a selection being
\* there
C29_Witness ==
  /\ op = "move" /\ ~is_drawing /\ ~is_resizing
  /\ rect_bool(get_current_rect)
  /\ last_pos # None /\ contains(actual_rect, last_pos[1])


\* the rectangle r with the side that edge e names moved by delta d along
\* that side's axis
side_moved(r, e, d) ==
  CASE e = "LEFT" -> [r EXCEPT !.x1 = r.x1 + d.x]
    [] e = "RIGHT" -> [r EXCEPT !.x2 = r.x2 + d.x]
    [] e = "TOP" -> [r EXCEPT !.y1 = r.y1 + d.y]
    [] e = "BOTTOM" -> [r EXCEPT !.y2 = r.y2 + d.y]

\* a pointer move of a resize gesture on a single side, the pointer having
\* gone from last_pos to the new last_pos
side_dragged ==
  /\ op' = "move" /\ ret' = "none"
  /\ is_resizing /\ resize_edge \in {"LEFT", "RIGHT", "TOP", "BOTTOM"}
  /\ last_pos # None /\ last_pos' # None
  /\ rect_bool(get_current_rect)

\* rectangle t is at least MIN_SIZE wide and high and lies in the area a
fits(t, a) ==
  /\ width(t) >= MIN_SIZE /\ height(t) >= MIN_SIZE
  /\ intersected(t, a) = t

\* C30: while a single side of the selection is being resized, a pointer-move
\* by delta that leaves the rectangle at least MIN_SIZE wide and high, inside
\* the rendered image area, moves that side by delta along its axis and
\* leaves the other three sides where they were: the corners of that
\* rectangle are stored as the selection's two points.
C30_SingleEdgeFollowsPointer ==
  [][(/\ side_dragged
      /\ fits(side_moved(get_current_rect[1], resize_edge,
                         QPoint(last_pos'[1].x - last_pos[1].x,
                                last_pos'[1].y - last_pos[1].y)),
              actual_rect))
       => LET t == side_moved(get_current_rect[1], resize_edge,
                              QPoint(last_pos'[1].x - last_pos[1].x,
                                     last_pos'[1].y - last_pos[1].y))
          IN  /\ rel_start_pos' = to_relative_pos(topLeft(t))
              /\ rel_end_pos' = to_relative_pos(bottomRight(t))]_vars

\* C36: history_index is always the history's length less one, so it is -1
\* exactly when the history is empty.
C36_IndexIsLastEntry ==
  /\ history_index = Len(history) - 1
  /\ (history_index = -1) <=> (history = <<>>)

\* an undo has just taken the last entry out of the history
C36_Witness ==
  /\ op = "undo" /\ ret = "true"
  /\ history = <<>> /\ history_index = -1


\* C34: the interaction mode is a single value: is_drawing and is_resizing
\* are never both true, and is_resizing is true exactly when resize_edge is
\* not NONE.
C34_SingleMode ==
  /\ ~(is_drawing /\ is_resizing)
  /\ is_resizing <=> (resize_edge # "NONE")


\* C33: when both selection points are set and span a non-empty rectangle of
\* the rendered image area, the selection is present for its consumers:
\* get_current_rect (the on-screen rectangle and the edge classification)
\* and get_selection_rect (crop and copy) both return a rectangle, also when
\* a stored point is exactly relative (0,0).
C33_OriginPointIsPresent ==
  (/\ rel_start_pos # None /\ rel_end_pos # None
   /\ label_pixmap /\ original_pixmap # None
   /\ pm_height(original_pixmap[1]) > 0
   /\ isValid(RectIn(rel_start_pos[1], rel_end_pos[1], actual_rect)))
    => /\ rect_bool(get_current_rect)
       /\ get_selection_rect # None


\* the rectangle shown for selection points s and e has the width and the
\* height of r and lies in the rendered image area a
shown_as(s, e, r, a) ==
  LET t == CurrentRect(s, e, original_pixmap, current_pixmap_rect)
  IN  /\ rect_bool(t)
      /\ width(t[1]) = width(r) /\ height(t[1]) = height(r)
      /\ intersected(t[1], a) = t[1]

\* C35: after every pointer-move of a move gesture (is_resizing with
\* resize_edge MOVE) the selection rectangle lies entirely inside the
\* rendered image area and is as wide and as high as it was before the
\* move.
C35_MoveKeepsSizeInside ==
  [][(/\ op' = "move" /\ ret' = "none"
      /\ is_resizing /\ resize_edge = "MOVE"
      /\ rect_bool(get_current_rect))
       => shown_as(rel_start_pos', rel_end_pos', get_current_rect[1],
                   actual_rect)]_vars

\* C31: the crop rectangle lies within the bounds of the current image (a
\* selection reaching outside the image is clipped to it, not rejected), so
\* after every successful crop the new buffer is at least 1 pixel wide and
\* high and no wider and no higher than the buffer before the crop.
C31_CropRectInsideImage ==
  /\ (label_pixmap /\ original_pixmap # None /\ rect_bool(get_selection_rect))
       => LET r == get_selection_rect[1]
          IN  /\ 0 <= r.x1 /\ r.x2 <= pm_width(original_pixmap[1]) - 1
              /\ 0 <= r.y1 /\ r.y2 <= pm_height(original_pixmap[1]) - 1
  /\ (just_edited /\ op = "trim")
       => /\ 1 <= pm_width(original_pixmap[1])
          /\ pm_width(original_pixmap[1]) <= pm_width(last_edit[1].buffer)
          /\ 1 <= pm_height(original_pixmap[1])
          /\ pm_height(original_pixmap[1]) <= pm_height(last_edit[1].buffer)

\* a crop has just succeeded whose selection began above the image
C31_Witness ==
  /\ just_edited /\ op = "trim"
  /\ last_edit[1].sel[1] # None /\ last_edit[1].sel[1][1].y.n < 0
  /\ pm_height(original_pixmap[1]) < pm_height(last_edit[1].buffer)

\* an operation has just replaced the image: a load that returned, or a
\* crop, a rotation, an undo or a reset that succeeded
replaced ==
  \/ op = "load" /\ ret = "none"
  \/ op \in {"trim", "rotate", "undo", "reset"} /\ ret = "true"

\* there is no selection and no gesture
idle_without_selection ==
  /\ rel_start_pos = None /\ rel_end_pos = None
  /\ ~is_drawing /\ ~is_resizing /\ resize_edge = "NONE"

\* C32: right after every successful operation that replaces the image
\* (load, crop, rotate, undo, reset), also in the middle of a drag, there is
\* no selection and the mode is Idle; a pointer-move that follows with no
\* pointer-down in between leaves it so.
C32_ReplacingClearsSelection ==
  [][/\ replaced' => idle_without_selection'
     /\ (replaced /\ op' = "move") => idle_without_selection']_vars

\* the pointer has moved right after a crop
C32_Witness ==
  /\ op = "move" /\ after_edit("trim")
  /\ last_pos # None
  /\ idle_without_selection

=============================================================================
